---- MODULE Spec2Model ----
(***************************************************************************)
(* BottomNavigation (src/src/components/BottomNavigation.js) as a state    *)
(* machine: the controlled navigationState prop owned by the host, the     *)
(* component's Animated.Value cells (tabs, shifts, index, ripple), the     *)
(* animation plans handed to Animated.parallel(...).start(cb), and the     *)
(* handlers _handleLayout, _handleTabPress, _jumpTo and componentDidUpdate.*)
(*                                                                         *)
(* Animated values are fixed-point numbers in tenths: Unit stands for 1.0, *)
(* so MIN_RIPPLE_SCALE (0.1) is 1 and a shift amount of 2 is 2 * Unit.     *)
(***************************************************************************)
EXTENDS Integers, Sequences, FiniteSets, TLC

\* Longest route list the host supplies.
MaxRoutes == 3
\* Most completion callbacks the animation executor holds at once.
MaxPlans == 2

\* Most times the host re-supplies a route list of another length.
MaxResizes == 1

Unit == 10
MIN_RIPPLE_SCALE == 1
\* duration of the timings of tabs and shifts, and of ripple
TabDuration == 200
RippleDuration == 300

\* Route keys of example/src/BottomNavigationExample.js; a route list is a
\* prefix of it.  UnknownKey is registered in no route list.
AllKeys == <<"music", "albums", "recents", "purchased", "podcasts", "radio">>
UnknownKey == "settings"

Min(a, b) == IF a < b THEN a ELSE b

RouteLists == { SubSeq(AllKeys, 1, m) : m \in 1..Min(MaxRoutes, Len(AllKeys)) }

\* NavigationState<T> values that satisfy the documented contract.
NavigationStates ==
    { [index |-> i, routes |-> rs] : i \in 0..(Len(AllKeys) - 1), rs \in RouteLists }

ValidNavigationStates ==
    { ns \in NavigationStates : ns.index < Len(ns.routes) }

VARIABLES
    navigationState,  \* props.navigationState {index, routes}, owned by the host
    tabs,             \* state.tabs: one Animated.Value per route (focus weights)
    shifts,           \* state.shifts: one Animated.Value per route
    index,            \* state.index (Animated.Value)
    ripple,           \* state.ripple (Animated.Value)
    layout,           \* state.layout
    status,           \* "mounted", "unmounted", or "crashed" (render threw)
    plans,            \* plans handed to the executor whose callback is still due
    pending,          \* the host's queued setState({index}), <<>> when none
    resizes,          \* how many times the host changed the route list's length
    event,            \* the operation that produced this state
    calls             \* host callbacks fired by that operation, in order

vars == <<navigationState, tabs, shifts, index, ripple, layout, status, plans,
          pending, resizes, event, calls>>

\* Zero-based array access, as in the source.
At(arr, i) == arr[i + 1]
Indices(arr) == 0..(Len(arr) - 1)

(***************************************************************************)
(* _getShiftAmount                                                         *)
(***************************************************************************)
getShiftAmountLastOffByOne(activeIndex, currentIndex, numberOfItems) ==
    IF activeIndex < currentIndex THEN 2
    ELSE IF activeIndex > currentIndex THEN -2
    ELSE IF currentIndex = 0 THEN 1
    ELSE IF currentIndex = numberOfItems THEN -1
    ELSE 0

_getShiftAmount(activeIndex, currentIndex, numberOfItems) ==
    IF activeIndex < currentIndex THEN 2
    ELSE IF activeIndex > currentIndex THEN -2
    ELSE IF activeIndex = currentIndex /\ currentIndex = 0 THEN 1
    ELSE IF activeIndex = currentIndex /\ currentIndex = numberOfItems - 1 THEN -1
    ELSE 0

(***************************************************************************)
(* constructor                                                             *)
(***************************************************************************)
FocusValue(i, idx) == IF i = idx THEN Unit ELSE 0

constructorTabs(ns) ==
    [k \in 1..Len(ns.routes) |-> FocusValue(k - 1, ns.index)]

constructorShifts(ns) ==
    [k \in 1..Len(ns.routes) |->
        _getShiftAmount(ns.index, k - 1, Len(ns.routes)) * Unit]

\* The operation that produced a state: its name, its argument (the tab
\* pressed, the index resolved or supplied, the index a callback closed over)
\* and a flag: for a press, whether props.onTabPress was supplied; for a
\* completion callback, whether a focus weight it set held another value.
Event(op, arg, flag) == [op |-> op, arg |-> arg, flag |-> flag]

Init ==
    /\ navigationState \in ValidNavigationStates
    /\ tabs = constructorTabs(navigationState)
    /\ shifts = constructorShifts(navigationState)
    /\ index = navigationState.index * Unit
    /\ ripple = MIN_RIPPLE_SCALE
    /\ layout = [height |-> 0, width |-> 0, measured |-> FALSE]
    /\ status = "mounted"
    /\ plans = <<>>
    /\ pending = <<>>
    /\ resizes = 0
    /\ event = Event("constructor", navigationState.index, FALSE)
    /\ calls = <<>>

(***************************************************************************)
(* render: the two reads that throw a TypeError.  this.state.tabs[index]   *)
(* is undefined for a route beyond the cells built by the constructor, and *)
(* routes[navigationState.index] is undefined for an index outside the     *)
(* route list, which the ripple view reads in shifting mode (props.shifting*)
(* is left unset, as in the example).                                      *)
(***************************************************************************)
shifting(ns) == Len(ns.routes) > 3

renderThrows(ns) ==
    \/ Len(ns.routes) > Len(tabs)
    \/ Len(ns.routes) > Len(shifts)
    \/ shifting(ns) /\ ns.index \notin Indices(ns.routes)

(***************************************************************************)
(* componentDidUpdate                                                      *)
(***************************************************************************)
IndexAlwaysChanged(prevIndex, newIndex) == TRUE

IndexChanged(prevIndex, newIndex) == prevIndex # newIndex

\* A plan given to Animated.parallel([...]).start(cb): the index its callback
\* closes over, the number of routes it maps over, the time the executor has
\* driven it for, and whether a later plan took over its cells (what is left
\* of a superseded plan is its callback).
Plan(ns) ==
    [index |-> ns.index, n |-> Len(ns.routes), elapsed |-> 0, superseded |-> FALSE]

Supersede(ps) ==
    [k \in 1..Len(ps) |->
        [ps[k] EXCEPT !.elapsed = 0, !.n = 0, !.superseded = TRUE]]

TabTarget(p, i) == FocusValue(i, p.index)
ShiftTarget(p, i) == _getShiftAmount(p.index, i, p.n) * Unit

componentDidUpdate(prevIndex, ns) ==
    IF IndexChanged(prevIndex, ns.index)
    THEN /\ Len(plans) < MaxPlans
         /\ ripple' = MIN_RIPPLE_SCALE
         /\ plans' = Append(Supersede(plans), Plan(ns))
         /\ UNCHANGED <<tabs, shifts, index>>
    ELSE UNCHANGED <<tabs, shifts, index, ripple, plans>>

\* React commits new props or state: render, then componentDidUpdate; a
\* render that throws takes the component down before componentDidUpdate.
Commit(ns) ==
    IF renderThrows(ns)
    THEN /\ status' = "crashed"
         /\ UNCHANGED <<tabs, shifts, index, ripple, plans>>
    ELSE /\ status' = status
         /\ componentDidUpdate(navigationState.index, ns)

(***************************************************************************)
(* _handleLayout.  The native layout pass reports the size of the          *)
(* container right after mount: the handlers and the host's updates below  *)
(* run on a measured component.                                            *)
(***************************************************************************)
LayoutSizes == { [height |-> 56, width |-> 400] }

_handleLayout(size) ==
    /\ status = "mounted"
    /\ pending = <<>>
    /\ layout' = [height |-> size.height, width |-> size.width, measured |-> TRUE]
    /\ layout' # layout
    /\ Commit(navigationState)
    /\ event' = Event("layout", 0, FALSE)
    /\ calls' = <<>>
    /\ UNCHANGED <<navigationState, pending, resizes>>

(***************************************************************************)
(* _handleTabPress, _jumpTo and the host's onIndexChange                   *)
(***************************************************************************)
OnIndexChangeCall(i) == [fn |-> "onIndexChange", arg |-> i, route |-> ""]
OnTabPressCall(i, ns) == [fn |-> "onTabPress", arg |-> i, route |-> At(ns.routes, i)]

PressAlwaysRequests(i, ns) == <<OnIndexChangeCall(i)>>

PressIndexChange(i, ns) ==
    IF i # ns.index THEN <<OnIndexChangeCall(i)>> ELSE <<>>

PressNotifyOnChangeOnly(i, ns, supplied) ==
    IF supplied /\ i # ns.index THEN <<OnTabPressCall(i, ns)>> ELSE <<>>

PressNotify(i, ns, supplied) ==
    IF supplied THEN <<OnTabPressCall(i, ns)>> ELSE <<>>

\* Array.prototype.findIndex: the first matching position, -1 when none.
findIndex(rs, key) ==
    IF \E k \in 1..Len(rs) : rs[k] = key
    THEN (CHOOSE k \in 1..Len(rs) :
            rs[k] = key /\ \A j \in 1..(k - 1) : rs[j] # key) - 1
    ELSE -1

\* The example host's _handleIndexChange = index => this.setState({ index }):
\* the last request of a handler is the one queued.
Requested(cs, was) ==
    LET req == SelectSeq(cs, LAMBDA c : c.fn = "onIndexChange")
    IN  IF req = <<>> THEN was ELSE <<req[Len(req)].arg>>

\* The tab bar takes touches only once measured (pointerEvents).  supplied:
\* whether the props of the current render carry onTabPress.
_handleTabPress(i, supplied) ==
    /\ status = "mounted"
    /\ pending = <<>>
    /\ layout.measured
    /\ i \in Indices(navigationState.routes)
    /\ calls' = PressIndexChange(i, navigationState)
                    \o PressNotify(i, navigationState, supplied)
    /\ pending' = Requested(calls', pending)
    /\ event' = Event("press", i, supplied)
    /\ UNCHANGED <<navigationState, tabs, shifts, index, ripple, layout, status,
                   plans, resizes>>

_jumpTo(key) ==
    /\ status = "mounted"
    /\ layout.measured
    /\ pending = <<>>
    /\ calls' = <<OnIndexChangeCall(findIndex(navigationState.routes, key))>>
    /\ pending' = Requested(calls', pending)
    /\ event' = Event("jumpTo", findIndex(navigationState.routes, key), FALSE)
    /\ UNCHANGED <<navigationState, tabs, shifts, index, ripple, layout, status,
                   plans, resizes>>

\* React flushes the setState queued inside a handler when the handler
\* returns, so nothing runs between a request and the host's answer to it.
\* The host stores the requested index and re-supplies navigationState.
HostUpdate ==
    /\ status = "mounted"
    /\ pending # <<>>
    /\ navigationState' = [navigationState EXCEPT !.index = pending[1]]
    /\ pending' = <<>>
    /\ Commit(navigationState')
    /\ event' = Event("indexChange", pending[1], FALSE)
    /\ calls' = <<>>
    /\ UNCHANGED <<layout, resizes>>

\* The host does not update its state: "otherwise the change is dropped".
HostDrop ==
    /\ pending # <<>>
    /\ pending' = <<>>
    /\ event' = Event("drop", 0, FALSE)
    /\ calls' = <<>>
    /\ UNCHANGED <<navigationState, tabs, shifts, index, ripple, layout, status,
                   plans, resizes>>

\* The host re-supplies a navigationState with a longer or shorter route
\* list, between two transitions.
HostSetRoutes(ns) ==
    /\ status = "mounted"
    /\ layout.measured
    /\ pending = <<>>
    /\ plans = <<>>
    /\ resizes < MaxResizes
    /\ Len(ns.routes) # Len(navigationState.routes)
    /\ navigationState' = ns
    /\ resizes' = resizes + 1
    /\ Commit(ns)
    /\ event' = Event("routesChange", ns.index, FALSE)
    /\ calls' = <<>>
    /\ UNCHANGED <<layout, pending>>

\* The host takes the component out of the tree; there is no
\* componentWillUnmount, so plans in flight stay with the executor.
Unmount ==
    /\ status = "mounted"
    /\ layout.measured
    /\ pending = <<>>
    /\ status' = "unmounted"
    /\ event' = Event("unmount", 0, FALSE)
    /\ calls' = <<>>
    /\ UNCHANGED <<navigationState, tabs, shifts, index, ripple, layout, plans,
                   pending, resizes>>

(***************************************************************************)
(* The animation executor (Animated.parallel / Animated.timing) and the    *)
(* completion callback passed to start()                                   *)
(***************************************************************************)
Running(k) == k \in 1..Len(plans) /\ ~plans[k].superseded

\* The value of ripple on its way from MIN_RIPPLE_SCALE to 1.
RippleAt(t) ==
    MIN_RIPPLE_SCALE + ((Unit - MIN_RIPPLE_SCALE) * Min(t, RippleDuration)) \div RippleDuration

\* The executor drives the running plan to the end of its next timing: the
\* timings of tabs and shifts end at their toValue after TabDuration, the
\* timing of ripple ends at 1 after RippleDuration.
Frame(k) ==
    /\ pending = <<>>
    /\ Running(k)
    /\ plans[k].elapsed < RippleDuration
    /\ LET p == plans[k]
           t == IF p.elapsed < TabDuration THEN TabDuration ELSE RippleDuration
       IN  /\ plans' = [plans EXCEPT ![k].elapsed = t]
           /\ tabs' = [j \in 1..Len(tabs) |->
                         IF j <= p.n /\ t = TabDuration
                         THEN TabTarget(p, j - 1) ELSE tabs[j]]
           /\ shifts' = [j \in 1..Len(shifts) |->
                         IF j <= p.n /\ t = TabDuration
                         THEN ShiftTarget(p, j - 1) ELSE shifts[j]]
           /\ ripple' = RippleAt(t)
    /\ event' = Event("frame", 0, FALSE)
    /\ calls' = <<>>
    /\ UNCHANGED <<navigationState, index, layout, status, pending, resizes>>

\* "a bug in native animations where this is reset after first animation":
\* the focus weights of a settled plan may be found reset to 0.
NativeReset(k) ==
    /\ pending = <<>>
    /\ Running(k)
    /\ plans[k].elapsed = RippleDuration
    /\ tabs' = [j \in 1..Len(tabs) |-> 0]
    /\ tabs' # tabs
    /\ event' = Event("reset", 0, FALSE)
    /\ calls' = <<>>
    /\ UNCHANGED <<navigationState, shifts, index, ripple, layout, status, plans,
                   pending, resizes>>

Remove(ps, k) == SubSeq(ps, 1, k - 1) \o SubSeq(ps, k + 1, Len(ps))

startCallbackTrustsExecutor(ts, idx) == ts

startCallbackTabs(ts, idx) == [k \in 1..Len(ts) |-> FocusValue(k - 1, idx)]

\* The executor reports plan k complete: a settled plan, or a superseded one
\* whose callback it still delivers.  The callback does not look at
\* {finished}, at the current props or at whether the component is mounted.
startCallback(k) ==
    /\ pending = <<>>
    /\ k \in 1..Len(plans)
    /\ plans[k].superseded \/ plans[k].elapsed = RippleDuration
    /\ tabs' = startCallbackTabs(tabs, plans[k].index)
    /\ index' = plans[k].index * Unit
    /\ ripple' = MIN_RIPPLE_SCALE
    /\ plans' = Remove(plans, k)
    /\ event' = Event("callback", plans[k].index, tabs' # tabs)
    /\ calls' = <<>>
    /\ UNCHANGED <<navigationState, shifts, layout, status, pending, resizes>>

\* The executor never delivers a superseded plan's callback.
DropCallback(k) ==
    /\ pending = <<>>
    /\ k \in 1..Len(plans)
    /\ plans[k].superseded
    /\ plans' = Remove(plans, k)
    /\ event' = Event("dropCallback", 0, FALSE)
    /\ calls' = <<>>
    /\ UNCHANGED <<navigationState, tabs, shifts, index, ripple, layout, status,
                   pending, resizes>>

Keys == { AllKeys[k] : k \in 1..Len(AllKeys) } \cup { UnknownKey }

Next ==
    \/ \E size \in LayoutSizes : _handleLayout(size)
    \/ \E i \in 0..(MaxRoutes - 1), supplied \in BOOLEAN : _handleTabPress(i, supplied)
    \/ \E key \in Keys : _jumpTo(key)
    \/ HostUpdate
    \/ HostDrop
    \/ \E ns \in ValidNavigationStates : HostSetRoutes(ns)
    \/ Unmount
    \/ \E k \in 1..MaxPlans : Frame(k)
    \/ \E k \in 1..MaxPlans : NativeReset(k)
    \/ \E k \in 1..MaxPlans : startCallback(k)
    \/ \E k \in 1..MaxPlans : DropCallback(k)

Spec == Init /\ [][Next]_vars

(***************************************************************************)
(* Properties                                                              *)
(***************************************************************************)
Requests == SelectSeq(calls, LAMBDA c : c.fn = "onIndexChange")
Notifications == SelectSeq(calls, LAMBDA c : c.fn = "onTabPress")

OneHot(ts, idx) ==
    \A i \in Indices(ts) : At(ts, i) = IF i = idx THEN Unit ELSE 0

\* C1: completion convergence.  Whenever the completion callback of the plan
\* for index new has run, new being one of the tabs the component was built
\* with, focusWeights[new] = 1, every other focus weight is 0,
\* activeIndexValue = new and rippleProgress = MIN_RIPPLE, whatever the
\* executor had left in the cells.
TheoremC1 ==
    (event.op = "callback" /\ event.arg \in Indices(tabs)) =>
        /\ At(tabs, event.arg) = Unit
        /\ \A i \in Indices(tabs) \ {event.arg} : At(tabs, i) = 0
        /\ index = event.arg * Unit
        /\ ripple = MIN_RIPPLE_SCALE

\* A completion callback that found a focus weight off its final value and
\* set it.
WitnessC1 ==
    /\ event.op = "callback"
    /\ event.arg \in Indices(tabs)
    /\ event.flag
    /\ Len(tabs) >= 2
    /\ OneHot(tabs, event.arg)

\* C2: controlled component.  A tab press or a jumpTo call only issues
\* requests: it leaves navigationState, the animated cells and the plans as
\* they were.  A plan is started only by a commit of props whose index
\* differs from the previous one, and a request the host does not store
\* changes nothing.
TheoremC2 ==
    /\ [][event'.op \in {"press", "jumpTo"} =>
            /\ UNCHANGED <<navigationState, tabs, shifts, index, ripple, plans>>
            /\ \A k \in 1..Len(Requests') : Requests'[k].arg = event'.arg]_vars
    /\ [][Len(plans') > Len(plans) =>
            /\ event'.op \in {"indexChange", "routesChange"}
            /\ navigationState'.index # navigationState.index]_vars
    /\ [][event'.op = "drop" =>
            UNCHANGED <<navigationState, tabs, shifts, index, ripple, plans>>]_vars

\* A press on another tab has issued its request and the index the host
\* owns is still the old one.
WitnessC2 ==
    /\ event.op = "press"
    /\ pending = <<event.arg>>
    /\ navigationState.index # event.arg
    /\ OneHot(tabs, navigationState.index)
    /\ plans = <<>>

\* C3: last writer wins.  At most one plan is running, and once every
\* completion callback has been delivered or given up, in whatever order,
\* the cells show the latest index: with the route list the component was
\* built with, its index c one of its tabs, and activeIndexValue showing one
\* of its tabs, that tab is c.
CounterexampleC3 ==
    /\ Cardinality({k \in 1..Len(plans) : Running(k)}) <= 1
    /\ ( /\ status = "mounted"
         /\ plans = <<>>
         /\ pending = <<>>
         /\ resizes = 0
         /\ navigationState.index \in Indices(tabs)
         /\ index \in { i * Unit : i \in Indices(tabs) } )
       => /\ OneHot(tabs, navigationState.index)
          /\ index = navigationState.index * Unit
          /\ ripple = MIN_RIPPLE_SCALE

\* C4: jumpTo with a key of no route is rejected: no onIndexChange call
\* carries an index outside the route list, and, the route list being the
\* one the component was built with, navigationState.index and
\* activeIndexValue stay inside it.
CounterexampleC4 ==
    /\ \A k \in 1..Len(Requests) :
            Requests[k].arg \in Indices(navigationState.routes)
    /\ resizes = 0 =>
        /\ navigationState.index \in Indices(navigationState.routes)
        /\ index \in { i * Unit : i \in Indices(navigationState.routes) }

\* shiftAmount as the specification states it.
ShiftAmountSpec(a, c, n) ==
    IF a < c THEN 2
    ELSE IF a > c THEN -2
    ELSE IF c = 0 THEN 1
    ELSE IF c = n - 1 THEN -1
    ELSE 0

\* C5: for n >= 1 and a, c in 0..n-1, shiftAmount(a, c, n) is 2 when a < c,
\* -2 when a > c, and for a = c it is 1 if c = 0, else -1 if c = n-1, else 0.
\* Read off the shift weights the constructor sets and off those a plan has
\* driven to their toValue.
TheoremC5 ==
    /\ event.op = "constructor" =>
         \A c \in Indices(navigationState.routes) :
            /\ At(shifts, c) = Unit * ShiftAmountSpec(navigationState.index, c,
                                                     Len(navigationState.routes))
            /\ At(shifts, c) \in { Unit * v : v \in -2..2 }
    /\ \A k \in 1..Len(plans) :
         ( /\ Running(k)
           /\ plans[k].elapsed >= TabDuration
           /\ plans[k].index \in 0..(plans[k].n - 1) )
         => \A c \in 0..(plans[k].n - 1) :
              /\ At(shifts, c) = Unit * ShiftAmountSpec(plans[k].index, c, plans[k].n)
              /\ At(shifts, c) \in { Unit * v : v \in -2..2 }

\* A plan has driven the shift weights of three tabs to a middle tab.
WitnessC5 ==
    \E k \in 1..Len(plans) :
        /\ Running(k)
        /\ plans[k].elapsed >= TabDuration
        /\ plans[k].n = 3
        /\ plans[k].index = 1
        /\ shifts = <<-2 * Unit, 0, 2 * Unit>>

\* C6: a press on tab i fires onTabPress exactly once, with the route at
\* position i, when the host supplies onTabPress, whether or not i is the
\* current index; it fires none, and the component stays up, when the host
\* supplies none.
TheoremC6 ==
    event.op = "press" =>
        /\ status = "mounted"
        /\ Notifications =
             IF event.flag
             THEN <<[fn |-> "onTabPress", arg |-> event.arg,
                     route |-> At(navigationState.routes, event.arg)]>>
             ELSE <<>>

\* A press on the tab that is already active, with onTabPress supplied.
WitnessC6 ==
    /\ event.op = "press"
    /\ event.flag
    /\ event.arg = navigationState.index
    /\ Len(Notifications) = 1

\* C7 as claimed: every press on tab i, the active tab included, calls
\* onIndexChange(i) exactly once.
CounterexampleC7 ==
    event.op = "press" =>
        Requests = <<[fn |-> "onIndexChange", arg |-> event.arg, route |-> ""]>>

\* C7 as amended: a press on tab i calls onIndexChange(i) exactly once when
\* i differs from navigationState.index, and does not call it when i is the
\* current index.
TheoremC7 ==
    event.op = "press" =>
        Requests =
            IF event.arg # navigationState.index
            THEN <<[fn |-> "onIndexChange", arg |-> event.arg, route |-> ""]>>
            ELSE <<>>

\* A press on the active tab that issued no request.
WitnessC7 ==
    /\ event.op = "press"
    /\ event.arg = navigationState.index
    /\ Requests = <<>>
    /\ pending = <<>>

\* componentDidUpdate ran in this step with prevProps' index equal to the
\* new one.
DidUpdateSameIndex ==
    /\ event'.op \in {"layout", "indexChange", "routesChange"}
    /\ status' = "mounted"
    /\ navigationState'.index = navigationState.index

\* C8 as claimed: run with previous index = new index from a steady state,
\* the handler resets rippleProgress and builds a plan whose targets are the
\* current values.
CounterexampleC8 ==
    [][(DidUpdateSameIndex /\ plans = <<>>) =>
          /\ ripple' = MIN_RIPPLE_SCALE
          /\ Len(plans') = 1
          /\ plans'[1].index = navigationState.index
          /\ \A i \in 0..(plans'[1].n - 1) :
                /\ TabTarget(plans'[1], i) = At(tabs, i)
                /\ ShiftTarget(plans'[1], i) = At(shifts, i)]_vars

\* C8 as amended: run with previous index = new index, the handler builds
\* no plan and writes no cell, so the state after it is the state before it.
TheoremC8 ==
    [][DidUpdateSameIndex =>
          UNCHANGED <<tabs, shifts, index, ripple, plans>>]_vars

\* The host re-supplied the index it already had, in a steady state, and no
\* plan exists.
WitnessC8 ==
    /\ event.op = "indexChange"
    /\ event.arg = navigationState.index
    /\ status = "mounted"
    /\ plans = <<>>
    /\ ripple = MIN_RIPPLE_SCALE
    /\ OneHot(tabs, navigationState.index)

\* C9: a completion callback delivered after the component was unmounted
\* writes nothing to focusWeights, activeIndexValue or rippleProgress (the
\* route list being the one the component was built with, and the plan's
\* index one of its tabs).
CounterexampleC9 ==
    [][( /\ status = "unmounted"
         /\ resizes = 0
         /\ event'.op = "callback"
         /\ event'.arg \in Indices(tabs) ) =>
          UNCHANGED <<tabs, index, ripple>>]_vars

\* C10: focusWeights and shiftWeights hold exactly one entry per current
\* route.
CounterexampleC10 ==
    /\ Len(tabs) = Len(navigationState.routes)
    /\ Len(shifts) = Len(navigationState.routes)

\* C11: rest-state invariant.  With the route list the component was built
\* with and navigationState.index one of its tabs, whenever no plan is held
\* by the executor (right after construction, and once every plan started
\* has been completed and its callback delivered or given up), every focus
\* weight is 1 for navigationState.index and 0 otherwise, every shift weight
\* is the shift amount of its tab for navigationState.index,
\* activeIndexValue = navigationState.index and rippleProgress =
\* MIN_RIPPLE; exactly one focus weight is 1.
CounterexampleC11 ==
    ( /\ status = "mounted"
      /\ plans = <<>>
      /\ pending = <<>>
      /\ resizes = 0
      /\ navigationState.index \in Indices(tabs)
      /\ index \in { i * Unit : i \in Indices(tabs) } )
    => /\ tabs = constructorTabs(navigationState)
       /\ shifts = constructorShifts(navigationState)
       /\ index = navigationState.index * Unit
       /\ ripple = MIN_RIPPLE_SCALE
       /\ Cardinality({ i \in Indices(tabs) : At(tabs, i) = Unit }) = 1

====
